---- MODULE Spec2Model ----
(***************************************************************************)
(* A model of CapabilitiesController (index.ts): the capability store,     *)
(* the method router, the restricted-method executor and the               *)
(* requestPermissions workflow.                                            *)
(*                                                                         *)
(* Strings that the code takes apart (method names) are sequences of       *)
(* characters; a character is a one-element token such as "_" or "ns".     *)
(* The empty string '' is the empty sequence <<>>.                         *)
(***************************************************************************)
EXTENDS Integers, Sequences, FiniteSets, TLC

VARIABLES
    safeMethods,          \* config.safeMethods (constructor argument)
    domains,              \* state.domains: origin -> list of capabilities
    permissionsRequests,  \* state.permissionsRequests
    calls,                \* requestPermissions calls that reached the approval prompt
    boundMeta,            \* the originMetadata object the host curries per origin
    uuidCount,            \* number of uuid() values drawn so far
    last,                 \* what the most recent operation did to its res/next/end
    keyProbe,             \* input and output of one getMethodKeyFor application
    hasProbe              \* input and output of one hasPermissions application

vars == <<safeMethods, domains, permissionsRequests, calls, boundMeta,
          uuidCount, last, keyProbe, hasProbe>>

-----------------------------------------------------------------------------
(* Bounds of the model *)

MaxLen == 4        \* longest method string given to getMethodKeyFor on its own
MaxCaveats == 2    \* longest caveat list given to hasPermissions on its own
MaxCalls == 2      \* requestPermissions calls that reach the approval prompt
MaxUuid == 4       \* uuid() values drawn in one behaviour

-----------------------------------------------------------------------------
(* String primitives of JavaScript used by getMethodKeyFor *)

US == "_"

\* String.prototype.indexOf for a single character, 0-based, -1 when absent.
IndexOf(s, c) ==
    IF \E i \in 1..Len(s) : s[i] = c
    THEN (CHOOSE i \in 1..Len(s) : s[i] = c /\ \A j \in 1..(i-1) : s[j] # c) - 1
    ELSE -1

\* String.prototype.split for a single-character separator.
RECURSIVE Split(_, _)
Split(s, c) ==
    LET i == IndexOf(s, c)
    IN  IF i = -1 THEN <<s>>
        ELSE <<SubSeq(s, 1, i)>> \o Split(SubSeq(s, i + 2, Len(s)), c)

\* The while loop of getMethodKeyFor: shift segments onto `managed` until
\* the segments run out or `managed` is a managed method.
RECURSIVE AccumulateKey(_, _, _)
AccumulateKey(segments, managed, managedMethods) ==
    IF Len(segments) > 0 /\ managed \notin managedMethods
    THEN AccumulateKey(Tail(segments), managed \o Head(segments) \o <<US>>,
                       managedMethods)
    ELSE managed

getMethodKeyForFirstChar(method, managedMethods) ==
    IF method \in managedMethods THEN method
    ELSE IF IndexOf(method, US) >= 0
    THEN LET managed == AccumulateKey(Split(method, US), <<>>, managedMethods)
         IN  IF managed \in managedMethods THEN managed ELSE <<>>
    ELSE IF method \in managedMethods THEN method ELSE <<>>

getMethodKeyFor(method, managedMethods) ==
    IF method \in managedMethods THEN method
    ELSE IF IndexOf(method, US) > 0
    THEN LET managed == AccumulateKey(Split(method, US), <<>>, managedMethods)
         IN  IF managed \in managedMethods THEN managed ELSE <<>>
    ELSE IF method \in managedMethods THEN method ELSE <<>>

-----------------------------------------------------------------------------
(* Data: origins, ids, caveats, capabilities *)

Origins == {"o1", "o2"}

\* An id is <<kind, n>>; NoId is the absent (undefined) id, which is falsy.
NoId == <<"none", 0>>
Uuid(n) == <<"uuid", n>>

\* IOcapLdCaveat: {type, value}; a value is an array of numbers.
Caveat(type, value) == [type |-> type, value |-> value]

\* The optional `caveats` field: undefined, or an array of caveats.
NoCaveats == [present |-> FALSE, list |-> <<>>]
Caveats(list) == [present |-> TRUE, list |-> list]

\* class Capability: the constructor stamps a fresh id (date and @context,
\* which no operation reads, are left out).
Capability(method, caveats, invoker, id) ==
    [parentCapability |-> method, caveats |-> caveats, invoker |-> invoker,
     id |-> id]

\* A JavaScript object with string keys, in insertion order: a sequence of
\* [key, value] entries with distinct keys.
Entry(k, v) == [key |-> k, value |-> v]
Keys(obj) == {obj[i].key : i \in 1..Len(obj)}
Get(obj, k) == (CHOOSE e \in {obj[i] : i \in 1..Len(obj)} : e.key = k).value

-----------------------------------------------------------------------------
(* ./src/caveats: caveatEqual and sortCaveats *)

\* caveatEqual: deep equality of type and value.
caveatEqual(a, b) == a.type = b.type /\ a.value = b.value

\* The ascending order of the caveat type names.
TypeRank(type) ==
    CASE type = "filterParams" -> 1
      [] type = "filterResponse" -> 2
      [] OTHER -> 3

RECURSIVE ValueLess(_, _)
ValueLess(v, w) ==
    IF v = <<>> THEN w # <<>>
    ELSE IF w = <<>> THEN FALSE
    ELSE IF Head(v) # Head(w) THEN Head(v) < Head(w)
    ELSE ValueLess(Tail(v), Tail(w))

\* The canonical order: by type, and within a type by value.
CaveatLess(a, b) ==
    \/ TypeRank(a.type) < TypeRank(b.type)
    \/ TypeRank(a.type) = TypeRank(b.type) /\ ValueLess(a.value, b.value)

RECURSIVE InsertCaveat(_, _)
InsertCaveat(c, sorted) ==
    IF sorted = <<>> THEN <<c>>
    ELSE IF CaveatLess(c, Head(sorted)) THEN <<c>> \o sorted
    ELSE <<Head(sorted)>> \o InsertCaveat(c, Tail(sorted))

RECURSIVE SortList(_)
SortList(list) ==
    IF list = <<>> THEN <<>> ELSE InsertCaveat(Head(list), SortList(Tail(list)))

\* sortCaveats(caveats): sorts the array in place; nothing to do when absent.
sortCaveats(caveats) ==
    IF caveats.present THEN Caveats(SortList(caveats.list)) ELSE caveats

IsSorted(list) == \A i \in 1..(Len(list) - 1) : ~CaveatLess(list[i+1], list[i])

-----------------------------------------------------------------------------
(* hasPermissions *)

\* The reduce of hasPermissions: the last capability per parentCapability.
Existing(perms, m) ==
    perms[CHOOSE i \in 1..Len(perms) :
            /\ perms[i].parentCapability = m
            /\ \A j \in (i+1)..Len(perms) : perms[j].parentCapability # m]

\* The body of the second loop of hasPermissions for one request key.
CaveatsMatch(requestedCaveats, existingCaveats) ==
    IF ~requestedCaveats.present /\ ~existingCaveats.present THEN TRUE
    ELSE IF \/ ~requestedCaveats.present \/ ~existingCaveats.present
            \/ Len(requestedCaveats.list) # Len(existingCaveats.list)
    THEN FALSE
    ELSE \A j \in 1..Len(requestedCaveats.list) :
            \E k \in 1..Len(existingCaveats.list) :
                caveatEqual(requestedCaveats.list[j], existingCaveats.list[k])

\* hasPermissions(domain, requests), given perms = getPermissionsForDomain(domain).
hasPermissions(perms, requests) ==
    /\ \A m \in Keys(requests) :
          \E i \in 1..Len(perms) : perms[i].parentCapability = m
    /\ \A m \in Keys(requests) :
          CaveatsMatch(Get(requests, m).caveats, Existing(perms, m).caveats)

-----------------------------------------------------------------------------
(* The configuration handed to the constructor *)

mPing == <<"ping">>
mDual == <<"dual">>
mRead == <<"read">>
mNs == <<"ns", US>>
mNsFoo == <<"ns", US, "foo">>
mNoFn == <<"nofn">>
mBogus == <<"bogus">>

\* config.methodPrefix
methodPrefix == <<"wallet", US>>

mGetPermissions == methodPrefix \o <<"getPermissions">>
mRequestPermissions == methodPrefix \o <<"requestPermissions">>

\* Object.keys(this.internalMethods)
internalMethodNames == {mGetPermissions, mRequestPermissions}

\* config.restrictedMethods: key -> whether its `method` is a function.
\* "dual" is also a safe method; the namespace "wallet_" also covers the
\* internal method names; "nofn" has no callable method.
restrictedMethods ==
    << Entry(mRead, TRUE), Entry(mNs, TRUE), Entry(mDual, TRUE),
       Entry(methodPrefix, TRUE), Entry(mNoFn, FALSE) >>

\* The values config.safeMethods takes in this model.
SafeMethodChoices == {{mPing, mDual}, {mPing, mDual, mGetPermissions}}

\* What a terminal restricted method puts in res.result.
MethodResult == <<1, 2>>

-----------------------------------------------------------------------------
(* Requests *)

NoOrigin == "none"

\* IOriginMetadata as a value: origin and id, each possibly absent.
Meta(origin, id) == [origin |-> origin, id |-> id]
NoMeta == [present |-> FALSE, meta |-> Meta(NoOrigin, NoId)]
SomeMeta(origin, id) == [present |-> TRUE, meta |-> Meta(origin, id)]

\* A permission descriptor {caveats?}, or null.
Desc(caveats) == [isNull |-> FALSE, caveats |-> caveats]
NullDesc == [isNull |-> TRUE, caveats |-> NoCaveats]

\* A JavaScript value in req.params: t is "number", "null", "array" or
\* "object"; an object carries the permission descriptors it maps method
\* names to (perms) and its `metadata` field (meta).
Value(t, n, perms, meta) == [t |-> t, n |-> n, perms |-> perms, meta |-> meta]
Num(n) == Value("number", n, <<>>, NoMeta)
Null == Value("null", 0, <<>>, NoMeta)
Arr == Value("array", 0, <<>>, NoMeta)
Perms(perms) == Value("object", 0, perms, NoMeta)
Extra(meta) == Value("object", 0, <<>>, meta)

\* req.params: undefined, or an array of values.
NoParams == [defined |-> FALSE, list |-> <<>>]
Params(list) == [defined |-> TRUE, list |-> list]

Req(method, params) == [method |-> method, params |-> params]

cP1 == Caveat("filterParams", <<1>>)
cR1 == Caveat("filterResponse", <<1>>)
cX == Caveat("unregistered", <<1>>)

\* ../src/errors and the other values res.error takes
NoError == "none"
UNAUTHORIZED == "unauthorized"
INVALID_REQ == "invalidReq"
USER_REJECTED_ERROR == "userRejected"
METHOD_NOT_FOUND == "methodNotFound"
INVALID_PARAMS == "invalidParams"
TYPE_ERROR == "TypeError"

\* What one operation did: its res, its next and end callbacks, and what it
\* invoked on the way.  For a requestPermissions call, paramOrigin is the
\* origin written in req.params[1].metadata and requested is req.params[0]
\* once finalizePermissionsRequest accepted it; reqId is the argument of
\* removePermissionsRequest; outcome is what the approval promise settled
\* with; params is req.params of a call.
NoOutcome == [kind |-> "none", isNull |-> FALSE, approved |-> <<>>]

Quiet ==
    [op |-> "none", origin |-> NoOrigin, method |-> <<>>, route |-> "none",
     ref |-> 0, error |-> NoError, result |-> "none", caps |-> <<>>,
     data |-> <<>>, nextCalled |-> FALSE, endCalls |-> 0, invoked |-> FALSE,
     trace |-> <<>>, lookup |-> FALSE, permission |-> FALSE,
     approvalAsked |-> FALSE, thrown |-> FALSE, paramOrigin |-> NoOrigin,
     requested |-> <<>>, reqId |-> NoId, outcome |-> NoOutcome,
     params |-> NoParams]

NoKeyProbe == [used |-> FALSE, method |-> <<>>, keys |-> {}, done |-> FALSE,
               result |-> <<>>]
NoHasProbe == [used |-> FALSE, perms |-> <<>>, requests |-> <<>>,
               done |-> FALSE, result |-> FALSE]

-----------------------------------------------------------------------------
(* The permission store *)

\* getPermissionsForDomain(domain)
getPermissionsForDomain(doms, domain) ==
    IF domain \in DOMAIN doms THEN doms[domain].permissions ELSE <<>>

\* getPermission(domain, method): the first capability whose
\* parentCapability is `method`, as [found, cap].
getPermission(doms, domain, method) ==
    LET permissions ==
            SelectSeq(getPermissionsForDomain(doms, domain),
                      LAMBDA p : p.parentCapability = method)
    IN  IF Len(permissions) > 0
        THEN [found |-> TRUE, cap |-> Head(permissions)]
        ELSE [found |-> FALSE,
              cap |-> Capability(<<>>, NoCaveats, NoOrigin, NoId)]

\* setDomain(domain, domainSettings)
setDomain(doms, domain, domainSettings) ==
    IF Len(domainSettings.permissions) > 0
    THEN [o \in DOMAIN doms \cup {domain} |->
            IF o = domain THEN domainSettings ELSE doms[o]]
    ELSE [o \in DOMAIN doms \ {domain} |-> doms[o]]

\* getOrCreateDomainSettings(domain)
getOrCreateDomainSettings(doms, domain) ==
    IF domain \in DOMAIN doms THEN doms[domain] ELSE [permissions |-> <<>>]

addPermissionsForDroppingOld(doms, domainName, newPermissions, firstId) ==
    setDomain(doms, domainName,
              [permissions |->
                 [i \in 1..Len(newPermissions) |->
                     Capability(newPermissions[i].value.parentCapability,
                                newPermissions[i].value.caveats,
                                domainName, Uuid(firstId + i - 1))]])

\* addPermissionsFor(domainName, newPermissions): newPermissions is the
\* object methodName -> capability; the i-th pushed capability gets the
\* id Uuid(firstId + i - 1).
addPermissionsFor(doms, domainName, newPermissions, firstId) ==
    LET domain == getOrCreateDomainSettings(doms, domainName)
        newKeys == Keys(newPermissions)
        kept == SelectSeq(domain.permissions,
                          LAMBDA oldPerm : oldPerm.parentCapability \notin newKeys)
        pushed == [i \in 1..Len(newPermissions) |->
                     Capability(newPermissions[i].value.parentCapability,
                                newPermissions[i].value.caveats,
                                domainName, Uuid(firstId + i - 1))]
    IN  setDomain(doms, domainName, [permissions |-> kept \o pushed])

\* removePermissionsRequest(requestId) on the request list
removePermissionsRequest(reqs, requestId) ==
    SelectSeq(reqs, LAMBDA oldReq : oldReq.metadata.id # requestId)

\* getDomainSettings(domain): an origin that has no entry gets the entry
\* { permissions: [] }, written into the object getDomains() returned.
\* `live` says whether that object is the one the state holds
\* (state.domains) or the fresh {} that getDomains() makes up when
\* state.domains is undefined.
getDomainSettings(doms, domain, live) ==
    IF domain \notin DOMAIN doms /\ live
    THEN [o \in DOMAIN doms \cup {domain} |->
            IF o = domain THEN [permissions |-> <<>>] ELSE doms[o]]
    ELSE doms

\* removePermissionsFor(domainName, permissionsToRemove): the entry that
\* getDomainSettings makes up for an unknown origin is deleted again by
\* the setDomain that ends the operation.
removePermissionsFor(doms, domainName, permissionsToRemove) ==
    LET domain == getOrCreateDomainSettings(doms, domainName)
        removed == {permissionsToRemove[i].parentCapability :
                        i \in 1..Len(permissionsToRemove)}
        kept == SelectSeq(domain.permissions,
                          LAMBDA perm : perm.parentCapability \notin removed)
    IN  setDomain(doms, domainName, [permissions |-> kept])

\* clearDomains()
clearDomains == << >>

-----------------------------------------------------------------------------
(* ./src/caveats: the filterParams and filterResponse stages *)

\* this.caveats = { filterParams, filterResponse }
caveatRegistry == {"filterParams", "filterResponse"}

\* filterParams: req.params is structurally included in the caveat's value.
ParamsIncluded(params, value) ==
    /\ params.defined
    /\ Len(params.list) <= Len(value)
    /\ \A i \in 1..Len(params.list) :
          params.list[i].t = "number" /\ params.list[i].n = value[i]

\* filterResponse: keep the members of res.result that appear in the value.
ResponseFiltered(result, value) ==
    SelectSeq(result, LAMBDA x : \E i \in 1..Len(value) : value[i] = x)

\* The engine built by executeMethod, from stage i on: one stage per caveat
\* in list order, then the restricted method.  trace lists the stages that
\* ran (a caveat by its index, the restricted method as 0).
RECURSIVE RunStages(_, _, _)
RunStages(list, i, params) ==
    IF i > Len(list)
    THEN [error |-> NoError, invoked |-> TRUE, trace |-> <<0>>,
          data |-> MethodResult]
    ELSE IF list[i].type = "filterParams" /\ ~ParamsIncluded(params, list[i].value)
    THEN [error |-> INVALID_PARAMS, invoked |-> FALSE, trace |-> <<i>>,
          data |-> <<>>]
    ELSE LET rest == RunStages(list, i + 1, params)
         IN  [rest EXCEPT
                !.trace = <<i>> \o rest.trace,
                !.data = IF list[i].type = "filterResponse" /\ rest.error = NoError
                         THEN ResponseFiltered(rest.data, list[i].value)
                         ELSE rest.data]

-----------------------------------------------------------------------------
(* The restricted-method executor *)

Reverse(list) == [i \in 1..Len(list) |-> list[Len(list) + 1 - i]]

executeMethodReversed(doms, origin, req, obs) ==
    LET permission == getPermission(doms, origin, req.method)
        run == RunStages(Reverse(permission.cap.caveats.list), 1, req.params)
    IN  IF permission.found /\ Len(permission.cap.caveats.list) > 0
        THEN [obs EXCEPT !.error = run.error, !.invoked = run.invoked,
                         !.trace = run.trace, !.endCalls = 1,
                         !.result = IF run.invoked THEN "data" ELSE "none",
                         !.data = run.data]
        ELSE [obs EXCEPT !.invoked = TRUE, !.trace = <<0>>, !.endCalls = 1,
                         !.result = "data", !.data = MethodResult]

\* executeMethod(domain, req, res, next, end): the observation `obs`
\* completed with what the call did.
executeMethod(doms, origin, req, obs) ==
    LET methodKey == getMethodKeyFor(req.method, Keys(restrictedMethods))
        permission == getPermission(doms, origin, req.method)
        run == RunStages(permission.cap.caveats.list, 1, req.params)
    IN  IF methodKey # <<>> /\ Get(restrictedMethods, methodKey)
        THEN IF permission.found /\ permission.cap.caveats.present
                /\ Len(permission.cap.caveats.list) > 0
             THEN IF \E i \in 1..Len(permission.cap.caveats.list) :
                        permission.cap.caveats.list[i].type \notin caveatRegistry
                  THEN \* caveatFnGen is undefined: calling it throws
                       [obs EXCEPT !.thrown = TRUE]
                  ELSE [obs EXCEPT !.error = run.error, !.invoked = run.invoked,
                                   !.trace = run.trace, !.endCalls = 1,
                                   !.result = IF run.invoked THEN "data" ELSE "none",
                                   !.data = run.data]
             ELSE [obs EXCEPT !.invoked = TRUE, !.trace = <<0>>, !.endCalls = 1,
                              !.result = "data", !.data = MethodResult]
        ELSE [obs EXCEPT !.error = METHOD_NOT_FOUND, !.endCalls = 1]

RestrictedNoCheck(doms, origin, req, obs) ==
    executeMethod(doms, origin, req, [obs EXCEPT !.lookup = TRUE])

\* The restricted branch of providerMiddlewareFunction (lines 157-173).
Restricted(doms, origin, req, obs) ==
    LET permission == getPermission(doms, origin, req.method)
        seen == [obs EXCEPT !.lookup = TRUE, !.permission = permission.found]
    IN  IF ~permission.found
        THEN [seen EXCEPT !.error = UNAUTHORIZED, !.endCalls = 1]
        ELSE executeMethod(doms, origin, req, seen)

\* The routing decision of providerMiddlewareFunction (lines 148-155).
RouteInternalFirst(safe, methodName) ==
    IF methodName \in internalMethodNames THEN "internal"
    ELSE IF methodName \in safe THEN "safe"
    ELSE "restricted"

Route(safe, methodName) ==
    IF methodName \in safe THEN "safe"
    ELSE IF methodName \in internalMethodNames THEN "internal"
    ELSE "restricted"

-----------------------------------------------------------------------------
(* The requestPermissions workflow *)

\* finalizePermissionsRequest(req, res): "invalid" (res.error = invalidReq,
\* returns false), "throws" (Object.keys(null), or `.caveats` of a null
\* descriptor) or "ok" (returns true).
finalizePermissionsRequest(req) ==
    IF ~req.params.defined THEN "invalid"
    ELSE IF Len(req.params.list) = 0 THEN "invalid"
    ELSE LET p0 == req.params.list[1]
         IN  IF p0.t \notin {"object", "null", "array"} THEN "invalid"
             ELSE IF p0.t = "array" THEN "invalid"
             ELSE IF p0.t = "null" THEN "throws"
             ELSE IF Len(p0.perms) = 0 THEN "invalid"
             ELSE IF \E i \in 1..Len(p0.perms) : p0.perms[i].value.isNull
             THEN "throws"
             ELSE "ok"

\* req.params[0] after the sortCaveats loop of finalizePermissionsRequest.
SortedPermissions(perms) ==
    [i \in 1..Len(perms) |->
        Entry(perms[i].key, Desc(sortCaveats(perms[i].value.caveats)))]

SpreadUnderWins(under, over) ==
    Meta(IF under.origin # NoOrigin THEN under.origin ELSE over.origin,
         IF under.id # NoId THEN under.id ELSE over.id)

\* { ...under, ...over }
Spread(under, over) ==
    Meta(IF over.origin # NoOrigin THEN over.origin ELSE under.origin,
         IF over.id # NoId THEN over.id ELSE under.id)

\* getFinalizedRequestMetadata(metadata, req) up to the id check:
\* whether reading req.params[1].metadata throws, whether a new object is
\* built from the params' metadata, and the metadata before the id check.
getFinalizedRequestMetadata(metadata, req) ==
    LET two == Len(req.params.list) = 2
        p1 == req.params.list[2]
    IN  IF two /\ p1.t = "null"
        THEN [throws |-> TRUE, merged |-> FALSE, metadata |-> metadata]
        ELSE IF two /\ p1.meta.present
        THEN [throws |-> FALSE, merged |-> TRUE,
              metadata |-> Spread(p1.meta.meta, metadata)]
        ELSE [throws |-> FALSE, merged |-> FALSE, metadata |-> metadata]

\* The origin the requester wrote in req.params[1].metadata, if any.
ParamOrigin(req) ==
    IF req.params.defined /\ Len(req.params.list) = 2
       /\ req.params.list[2].meta.present
    THEN req.params.list[2].meta.meta.origin
    ELSE NoOrigin

\* A call that reached requestUserApproval keeps, while its promise is
\* pending, what its handlers close over: metadata.origin and
\* permissionsRequest.metadata.id (caller is the origin of the
\* originMetadata it was called with).  Gone is the record of a call whose
\* approval is no longer awaited: it settled, or requestUserApproval threw
\* instead of returning a promise.
Gone(status) == [status |-> status, caller |-> NoOrigin, origin |-> NoOrigin,
                 id |-> NoId]

\* The fast-path test of requestPermissionsMiddleware (line 581).
FastPath(doms, origin, permissions) ==
    hasPermissions(getPermissionsForDomain(doms, origin), permissions)

\* requestPermissionsMiddleware up to and including the call of
\* requestUserApproval.  `dm` is the originMetadata argument: its origin,
\* its id, and whether it is the object the host curried for the origin.
requestPermissionsMiddleware(dm, req, approvalThrows, obs) ==
    LET check == finalizePermissionsRequest(req)
        given == Meta(dm.origin, IF dm.bound THEN boundMeta[dm.origin] ELSE dm.id)
        fin == getFinalizedRequestMetadata(given, req)
        fresh == fin.metadata.id = NoId
        metadata == IF fresh THEN Meta(fin.metadata.origin, Uuid(uuidCount + 1))
                    ELSE fin.metadata
        permissions == SortedPermissions(req.params.list[1].perms)
        ref == Len(calls) + 1
        \* IPermissionsRequest; `permissions`, which the controller never
        \* reads back from the list, is left out; ref stands for the
        \* identity of the object
        permissionsRequest ==
            [origin |-> metadata.origin, metadata |-> metadata, ref |-> ref]
        seen == [obs EXCEPT !.paramOrigin = ParamOrigin(req),
                            !.requested = IF check = "ok" THEN permissions ELSE <<>>]
    IN  IF check = "invalid"
        THEN /\ last' = [seen EXCEPT !.error = INVALID_REQ, !.endCalls = 1]
             /\ UNCHANGED <<domains, permissionsRequests, calls, boundMeta,
                            uuidCount>>
        ELSE IF check = "throws" \/ fin.throws
        THEN /\ last' = [seen EXCEPT !.thrown = TRUE]
             /\ UNCHANGED <<domains, permissionsRequests, calls, boundMeta,
                            uuidCount>>
        ELSE /\ fresh => uuidCount < MaxUuid
             /\ uuidCount' = IF fresh THEN uuidCount + 1 ELSE uuidCount
             /\ boundMeta' = IF fresh /\ dm.bound /\ ~fin.merged
                             THEN [boundMeta EXCEPT ![dm.origin] = metadata.id]
                             ELSE boundMeta
             /\ IF FastPath(domains, metadata.origin, permissions)
                THEN /\ last' = [seen EXCEPT
                            !.result = "caps", !.endCalls = 1,
                            !.caps = getPermissionsForDomain(domains, metadata.origin)]
                     /\ UNCHANGED <<domains, permissionsRequests, calls>>
                ELSE /\ Len(calls) < MaxCalls
                     /\ permissionsRequests' =
                            Append(permissionsRequests, permissionsRequest)
                     /\ calls' = Append(calls,
                            IF approvalThrows THEN Gone("threw")
                            ELSE [status |-> "pending", caller |-> dm.origin,
                                  origin |-> metadata.origin, id |-> metadata.id])
                     /\ last' = [seen EXCEPT !.ref = ref, !.approvalAsked = TRUE,
                                             !.thrown = approvalThrows]
                     /\ UNCHANGED domains

\* getPermissionsMiddleware
getPermissionsMiddleware(origin, obs) ==
    [obs EXCEPT !.result = "caps", !.endCalls = 1,
                !.caps = getPermissionsForDomain(domains, origin)]

\* providerMiddlewareFunction(domain, req, res, next, end)
providerMiddlewareFunction(dm, req, approvalThrows) ==
    LET route == Route(safeMethods, req.method)
        obs == [Quiet EXCEPT !.op = "call", !.origin = dm.origin,
                             !.method = req.method, !.route = route,
                             !.params = req.params]
    IN  IF route = "safe"
        THEN /\ last' = [obs EXCEPT !.nextCalled = TRUE]
             /\ UNCHANGED <<domains, permissionsRequests, calls, boundMeta,
                            uuidCount>>
        ELSE IF route = "internal"
        THEN IF req.method = mGetPermissions
             THEN /\ last' = getPermissionsMiddleware(dm.origin, obs)
                  /\ UNCHANGED <<domains, permissionsRequests, calls, boundMeta,
                                 uuidCount>>
             ELSE requestPermissionsMiddleware(dm, req, approvalThrows, obs)
        ELSE /\ last' = Restricted(domains, dm.origin, req, obs)
             /\ UNCHANGED <<domains, permissionsRequests, calls, boundMeta,
                            uuidCount>>

-----------------------------------------------------------------------------
(* The approval settles *)

grantNewPermissionsSkippingUnknown(doms, domain, approved, next, obs) ==
    LET known == SelectSeq(approved, LAMBDA e :
                    getMethodKeyFor(e.key, Keys(restrictedMethods)) # <<>>
                    /\ ~e.value.isNull)
        permissions ==
            [i \in 1..Len(known) |->
                Entry(known[i].key,
                      Capability(known[i].key, known[i].value.caveats,
                                 domain, NoId))]
        granted == addPermissionsFor(doms, domain, permissions, next + 1)
    IN  [domains |-> granted, uuids |-> Len(known), threw |-> FALSE,
         obs |-> IF Len(known) < Len(approved)
                 THEN [obs EXCEPT !.error = METHOD_NOT_FOUND, !.endCalls = 1]
                 ELSE [obs EXCEPT !.result = "caps", !.endCalls = 1,
                                  !.caps = getPermissionsForDomain(granted, domain)]]

\* grantNewPermissions(domain, approved, res, end), with `next` uuid()
\* values drawn before it: the domains, the number of uuid() values drawn,
\* and the observation afterwards.  The capabilities it constructs are
\* read only for their parentCapability and caveats, so the ids they are
\* stamped with are not counted.  A null descriptor makes
\* `approved[method].caveats` throw.
grantNewPermissions(doms, domain, approved, next, obs) ==
    LET n == Len(approved)
        permissions ==
            [i \in 1..n |->
                Entry(approved[i].key,
                      Capability(approved[i].key, approved[i].value.caveats,
                                 domain, NoId))]
        granted == addPermissionsFor(doms, domain, permissions, next + 1)
    IN  IF \E i \in 1..n :
              getMethodKeyFor(approved[i].key, Keys(restrictedMethods)) = <<>>
        THEN [domains |-> doms, uuids |-> 0, threw |-> FALSE,
              obs |-> [obs EXCEPT !.error = METHOD_NOT_FOUND, !.endCalls = 1]]
        ELSE IF \E i \in 1..n : approved[i].value.isNull
        THEN [domains |-> doms, uuids |-> 0, threw |-> TRUE, obs |-> obs]
        ELSE [domains |-> granted, uuids |-> n, threw |-> FALSE,
              obs |-> [obs EXCEPT !.result = "caps", !.endCalls = 1,
                                  !.caps = getPermissionsForDomain(granted, domain)]]

\* What requestUserApproval's promise settles with.
Resolve(approved) == [kind |-> "resolve", isNull |-> FALSE, approved |-> approved]
ResolveNull == [kind |-> "resolve", isNull |-> TRUE, approved |-> <<>>]
Reject == [kind |-> "reject", isNull |-> FALSE, approved |-> <<>>]
REJECTION == "rejectionReason"

\* The .finally handler (lines 616-621) on the request list.
Finally(reqs, id) ==
    IF id # NoId THEN removePermissionsRequest(reqs, id) ELSE reqs

\* The .then, .catch and .finally handlers of requestPermissionsMiddleware
\* (lines 598-621) for the call `ref`, run when its approval settles.
Settle(ref, outcome) ==
    LET c == calls[ref]
        obs == [Quiet EXCEPT !.op = "settle", !.origin = c.caller,
                             !.method = mRequestPermissions, !.ref = ref,
                             !.route = "internal", !.outcome = outcome]
        grant == grantNewPermissions(domains, c.origin, outcome.approved,
                                     uuidCount, obs)
    IN  /\ c.status = "pending"
        /\ calls' = [calls EXCEPT ![ref] = Gone("settled")]
        /\ permissionsRequests' = Finally(permissionsRequests, c.id)
        /\ UNCHANGED <<boundMeta, safeMethods, keyProbe, hasProbe>>
        /\ IF outcome.kind = "reject"
           THEN /\ last' = [obs EXCEPT !.error = REJECTION, !.endCalls = 1]
                /\ UNCHANGED <<domains, uuidCount>>
           ELSE IF outcome.isNull
           THEN \* Object.keys(null) throws inside .then; .catch ends
                /\ last' = [obs EXCEPT !.error = TYPE_ERROR, !.endCalls = 1]
                /\ UNCHANGED <<domains, uuidCount>>
           ELSE IF Len(outcome.approved) = 0
           THEN /\ last' = [obs EXCEPT !.error = USER_REJECTED_ERROR,
                                       !.endCalls = 1]
                /\ UNCHANGED <<domains, uuidCount>>
           ELSE IF c.id = NoId
           THEN /\ last' = [obs EXCEPT !.error = INVALID_REQ, !.endCalls = 1]
                /\ UNCHANGED <<domains, uuidCount>>
           ELSE /\ uuidCount + grant.uuids <= MaxUuid
                /\ uuidCount' = uuidCount + grant.uuids
                /\ domains' = grant.domains
                /\ last' = IF grant.threw
                           THEN [obs EXCEPT !.error = TYPE_ERROR, !.endCalls = 1]
                           ELSE grant.obs

\* The host calls removePermissionsRequest(requestId).
RemovePermissionsRequest(requestId) ==
    /\ \E i \in 1..Len(permissionsRequests) :
          permissionsRequests[i].metadata.id = requestId
    /\ permissionsRequests' = removePermissionsRequest(permissionsRequests, requestId)
    /\ last' = [Quiet EXCEPT !.op = "removePermissionsRequest",
                             !.reqId = requestId]
    /\ UNCHANGED <<safeMethods, domains, calls, boundMeta, uuidCount,
                   keyProbe, hasProbe>>

-----------------------------------------------------------------------------
(* Inputs *)

HostId == <<"host", 1>>
ParamId == <<"param", 1>>

\* The originMetadata argument of a requestPermissions call: the object the
\* host curried for the origin (providerMiddlewareFunction.bind(this, domain)),
\* which carries no id at first, or a fresh object with an id of the host's.
DomainMetas ==
    {[origin |-> o, bound |-> TRUE, id |-> NoId] : o \in Origins}
    \cup {[origin |-> o, bound |-> FALSE, id |-> HostId] : o \in Origins}

\* Requests that leave the store and the request list as they are.
PlainRequests ==
    { Req(m, Params(<<Num(1)>>)) : m \in {mDual, mNs, mNsFoo, mNoFn, mGetPermissions} }
    \cup { Req(mRead, Params(<<Num(n)>>)) : n \in {1, 2} }
    \cup { Req(mRequestPermissions, NoParams) }

\* req.params[0] of requestPermissions calls.
RequestedPermissions ==
    { <<Entry(mRead, Desc(NoCaveats))>>,
      <<Entry(mRead, Desc(Caveats(<<cR1, cP1>>)))>>,
      <<Entry(mNs, Desc(NoCaveats))>> }

\* req.params[1] of requestPermissions calls: metadata of the requester's,
\* naming another origin and an id of its choice.
ExtraParams == { Extra(SomeMeta("o2", ParamId)) }

\* req.params of requestPermissions calls that finalizePermissionsRequest
\* does not accept, or whose second element is null.
BadRequestParams ==
    { NoParams, Params(<<>>), Params(<<Num(1)>>), Params(<<Null>>),
      Params(<<Arr>>), Params(<<Perms(<<>>)>>),
      Params(<<Perms(<<Entry(mRead, NullDesc)>>)>>),
      Params(<<Perms(<<Entry(mRead, Desc(NoCaveats))>>), Null>>) }

\* req.params of requestPermissions calls that it accepts.
GoodRequestParams ==
    { Params(<<Perms(p)>>) : p \in RequestedPermissions }
    \cup { Params(<<Perms(p), x>>) : p \in RequestedPermissions, x \in ExtraParams }

\* What the approval function may resolve with: the permissions of a
\* request as they are after finalizePermissionsRequest, or a mapping of
\* its own.
ApprovedChoices ==
    { SortedPermissions(p) : p \in RequestedPermissions } \cup
    { <<>>,
      <<Entry(mRead, Desc(NoCaveats)), Entry(mBogus, Desc(NoCaveats))>>,
      <<Entry(mRead, NullDesc)>> }

Outcomes == { ResolveNull, Reject } \cup { Resolve(a) : a \in ApprovedChoices }

\* What the host grants directly.
HostGrantChoices ==
    { SortedPermissions(p) : p \in RequestedPermissions } \cup
    { <<Entry(mNsFoo, Desc(Caveats(<<cX>>)))>>,
      <<Entry(mNoFn, Desc(NoCaveats))>> }

-----------------------------------------------------------------------------
(* The controller *)

Init ==
    /\ safeMethods = {mPing, mDual}
    /\ domains = << >>
    /\ permissionsRequests = << >>
    /\ calls = << >>
    /\ boundMeta = [o \in Origins |-> NoId]
    /\ uuidCount = 0
    /\ last = Quiet
    /\ keyProbe = NoKeyProbe
    /\ hasProbe = NoHasProbe

\* A request arrives that the controller answers at once.
Call ==
    \E o \in Origins, req \in PlainRequests :
        /\ providerMiddlewareFunction([origin |-> o, bound |-> TRUE, id |-> NoId],
                                      req, FALSE)
        /\ UNCHANGED <<safeMethods, keyProbe, hasProbe>>

\* A requestPermissions request arrives whose params are not accepted.
CallBadRequestPermissions ==
    \E o \in Origins, params \in BadRequestParams :
        /\ providerMiddlewareFunction([origin |-> o, bound |-> TRUE, id |-> NoId],
                                      Req(mRequestPermissions, params), FALSE)
        /\ UNCHANGED <<safeMethods, keyProbe, hasProbe>>

\* A requestPermissions request arrives; requestUserApproval returns a
\* promise, or throws.
CallRequestPermissions ==
    \E dm \in DomainMetas, params \in GoodRequestParams, approvalThrows \in BOOLEAN :
        /\ providerMiddlewareFunction(dm, Req(mRequestPermissions, params),
                                      approvalThrows)
        /\ UNCHANGED <<safeMethods, keyProbe, hasProbe>>

\* The approval promise of a pending call resolves or rejects.
ApprovalSettles ==
    \E ref \in 1..Len(calls) :
        \E outcome \in Outcomes : Settle(ref, outcome)

\* The host cancels a request that is in the list.
HostRemovesRequest ==
    \E i \in 1..Len(permissionsRequests) :
        RemovePermissionsRequest(permissionsRequests[i].metadata.id)

\* The host grants permissions directly: grantNewPermissions(domain, approved, res, end).
HostGrants ==
    \E o \in Origins, approved \in HostGrantChoices :
        LET obs == [Quiet EXCEPT !.op = "grantNewPermissions", !.origin = o]
            grant == grantNewPermissions(domains, o, approved, uuidCount, obs)
        IN  /\ ~grant.threw
            /\ uuidCount + grant.uuids <= MaxUuid
            /\ uuidCount' = uuidCount + grant.uuids
            /\ domains' = grant.domains
            /\ last' = grant.obs
            /\ UNCHANGED <<safeMethods, permissionsRequests, calls, boundMeta,
                           keyProbe, hasProbe>>

\* The request workflow.
Next ==
    \/ CallBadRequestPermissions
    \/ CallRequestPermissions
    \/ ApprovalSettles
    \/ HostRemovesRequest

Spec == Init /\ [][Next]_vars

\* The store and the dispatch of requests, for each configuration.
InitDispatch ==
    /\ safeMethods \in SafeMethodChoices
    /\ domains = << >>
    /\ permissionsRequests = << >>
    /\ calls = << >>
    /\ boundMeta = [o \in Origins |-> NoId]
    /\ uuidCount = 0
    /\ last = Quiet
    /\ keyProbe = NoKeyProbe
    /\ hasProbe = NoHasProbe

NextDispatch == Call \/ HostGrants

SpecDispatch == InitDispatch /\ [][NextDispatch]_vars

-----------------------------------------------------------------------------
(* The store under the host's operations *)

cP2 == Caveat("filterParams", <<2>>)

\* Mappings given to grantNewPermissions: one method, a method with
\* caveats in the order they were written, two methods.
StoreGrantChoices ==
    { <<Entry(mRead, Desc(NoCaveats))>>,
      <<Entry(mRead, Desc(Caveats(<<cR1, cP1>>)))>>,
      <<Entry(mNs, Desc(NoCaveats))>>,
      <<Entry(mRead, Desc(Caveats(<<cP2>>))), Entry(mNs, Desc(NoCaveats))>> }

\* A capability object of the host's.
HostCap(method, caveats, o) == Capability(method, caveats, o, HostId)

\* Objects methodName -> capability given to addPermissionsFor: keyed by
\* the capability's own method, or by another name.
AddChoices(o) ==
    { << >>,
      <<Entry(mRead, HostCap(mRead, NoCaveats, o))>>,
      <<Entry(mNs, HostCap(mNs, Caveats(<<cR1, cP1>>), o))>>,
      <<Entry(mRead, HostCap(mNs, NoCaveats, o))>> }

\* Lists given to removePermissionsFor.
RemoveChoices(o) ==
    { <<HostCap(mRead, NoCaveats, o)>>,
      <<HostCap(mRead, NoCaveats, o), HostCap(mNs, NoCaveats, o)>> }

\* Entries given to setDomain: no two capabilities for one method.
SetDomainChoices(o) ==
    { [permissions |-> << >>],
      [permissions |-> <<HostCap(mNs, NoCaveats, o)>>] }

HostGrantsStore ==
    \E o \in Origins, approved \in StoreGrantChoices :
        LET obs == [Quiet EXCEPT !.op = "grantNewPermissions", !.origin = o]
            grant == grantNewPermissions(domains, o, approved, uuidCount, obs)
        IN  /\ uuidCount + grant.uuids <= MaxUuid
            /\ uuidCount' = uuidCount + grant.uuids
            /\ domains' = grant.domains
            /\ last' = grant.obs
            /\ UNCHANGED <<safeMethods, permissionsRequests, calls, boundMeta,
                           keyProbe, hasProbe>>

HostAddsPermissions ==
    \E o \in Origins :
        \E newPermissions \in AddChoices(o) :
            /\ uuidCount + Len(newPermissions) <= MaxUuid
            /\ uuidCount' = uuidCount + Len(newPermissions)
            /\ domains' = addPermissionsFor(domains, o, newPermissions, uuidCount + 1)
            /\ last' = [Quiet EXCEPT !.op = "addPermissionsFor", !.origin = o]
            /\ UNCHANGED <<safeMethods, permissionsRequests, calls, boundMeta,
                           keyProbe, hasProbe>>

HostRemovesPermissions ==
    \E o \in Origins :
        \E permissionsToRemove \in RemoveChoices(o) :
            /\ domains' = removePermissionsFor(domains, o, permissionsToRemove)
            /\ last' = [Quiet EXCEPT !.op = "removePermissionsFor", !.origin = o]
            /\ UNCHANGED <<safeMethods, permissionsRequests, calls, boundMeta,
                           uuidCount, keyProbe, hasProbe>>

HostClearsDomains ==
    /\ domains' = clearDomains
    /\ last' = [Quiet EXCEPT !.op = "clearDomains"]
    /\ UNCHANGED <<safeMethods, permissionsRequests, calls, boundMeta,
                   uuidCount, keyProbe, hasProbe>>

HostSetsDomain ==
    \E o \in Origins :
        \E domainSettings \in SetDomainChoices(o) :
            /\ domains' = setDomain(domains, o, domainSettings)
            /\ last' = [Quiet EXCEPT !.op = "setDomain", !.origin = o]
            /\ UNCHANGED <<safeMethods, permissionsRequests, calls, boundMeta,
                           uuidCount, keyProbe, hasProbe>>

\* The host looks an origin's settings up: getDomainSettings(domain) or
\* getOrCreateDomainSettings(domain).
HostGetsDomainSettings ==
    \E o \in Origins, live \in BOOLEAN :
        /\ domains' = getDomainSettings(domains, o, live)
        /\ last' = [Quiet EXCEPT !.op = "getDomainSettings", !.origin = o]
        /\ UNCHANGED <<safeMethods, permissionsRequests, calls, boundMeta,
                       uuidCount, keyProbe, hasProbe>>

NextStore ==
    \/ HostGrantsStore
    \/ HostAddsPermissions
    \/ HostRemovesPermissions
    \/ HostClearsDomains
    \/ HostSetsDomain
    \/ HostGetsDomainSettings

SpecStore == Init /\ [][NextStore]_vars

-----------------------------------------------------------------------------
(* getMethodKeyFor on its own: every method string up to MaxLen over the    *)
(* alphabet, against every set of restricted-method keys from a pool.      *)

Alphabet == {"a", "b", US}
Strings == UNION {[1..k -> Alphabet] : k \in 0..MaxLen}
KeyPool ==
    { <<>>, <<US>>, <<"a", US>>, <<"a", US, "b", US>>, <<"a", US, "b">>,
      <<US, "a", US>>, <<"a", US, US>>, <<"b", US>> }

InitKey ==
    /\ keyProbe \in [used : {TRUE}, method : Strings, keys : SUBSET KeyPool,
                     done : {FALSE}, result : {<<>>}]
    /\ safeMethods = {mPing, mDual}
    /\ domains = << >>
    /\ permissionsRequests = << >>
    /\ calls = << >>
    /\ boundMeta = [o \in Origins |-> NoId]
    /\ uuidCount = 0
    /\ last = Quiet
    /\ hasProbe = NoHasProbe

ApplyGetMethodKeyFor ==
    /\ keyProbe.used /\ ~keyProbe.done
    /\ keyProbe' = [keyProbe EXCEPT
                      !.done = TRUE,
                      !.result = getMethodKeyFor(keyProbe.method, keyProbe.keys)]
    /\ UNCHANGED <<safeMethods, domains, permissionsRequests, calls, boundMeta,
                   uuidCount, last, hasProbe>>

SpecKey == InitKey /\ [][ApplyGetMethodKeyFor]_vars

-----------------------------------------------------------------------------
(* hasPermissions on its own: every store entry with at most one capability *)
(* per method and every request over two methods, all caveat lists sorted. *)

ProbeCaveats == {cP1, cR1, Caveat("filterResponse", <<2>>)}
SortedLists ==
    {l \in UNION {[1..k -> ProbeCaveats] : k \in 0..MaxCaveats} : IsSorted(l)}
CaveatChoices == {NoCaveats} \cup {Caveats(l) : l \in SortedLists}
ProbeMethods == <<mRead, mNs>>

\* One optional element per probe method, in the order of ProbeMethods.
ProbePairs ==
    [a : [present : BOOLEAN, caveats : CaveatChoices],
     b : [present : BOOLEAN, caveats : CaveatChoices]]

ProbePerms ==
    { (IF p.a.present
       THEN <<Capability(ProbeMethods[1], p.a.caveats, "o1", Uuid(1))>> ELSE <<>>)
        \o (IF p.b.present
            THEN <<Capability(ProbeMethods[2], p.b.caveats, "o1", Uuid(1))>> ELSE <<>>) :
      p \in ProbePairs }

ProbeRequests ==
    { (IF p.a.present THEN <<Entry(ProbeMethods[1], Desc(p.a.caveats))>> ELSE <<>>)
        \o (IF p.b.present THEN <<Entry(ProbeMethods[2], Desc(p.b.caveats))>> ELSE <<>>) :
      p \in ProbePairs }

InitHas ==
    /\ hasProbe \in [used : {TRUE}, perms : ProbePerms, requests : ProbeRequests,
                     done : {FALSE}, result : {FALSE}]
    /\ safeMethods = {mPing, mDual}
    /\ domains = << >>
    /\ permissionsRequests = << >>
    /\ calls = << >>
    /\ boundMeta = [o \in Origins |-> NoId]
    /\ uuidCount = 0
    /\ last = Quiet
    /\ keyProbe = NoKeyProbe

ApplyHasPermissions ==
    /\ hasProbe.used /\ ~hasProbe.done
    /\ hasProbe' = [hasProbe EXCEPT
                      !.done = TRUE,
                      !.result = hasPermissions(hasProbe.perms, hasProbe.requests)]
    /\ UNCHANGED <<safeMethods, domains, permissionsRequests, calls, boundMeta,
                   uuidCount, last, keyProbe>>

SpecHas == InitHas /\ [][ApplyHasPermissions]_vars

-----------------------------------------------------------------------------
(* C5: getMethodKeyFor *)

\* The keys seg1_, seg1_seg2_, ... that getMethodKeyFor accumulates from
\* `method`: its prefixes that end in "_", and the whole method followed by "_".
AccumulatedKeys(method) ==
    {SubSeq(method, 1, i) : i \in {j \in 1..Len(method) : method[j] = US}}
    \cup {method \o <<US>>}

ShortestKey(S) == CHOOSE k \in S : \A k2 \in S : Len(k) <= Len(k2)

\* The result the spec gives: `underscore` says whether the namespace
\* search applies to the method.
NamespaceKey(method, R, underscore) ==
    IF method \in R THEN method
    ELSE IF underscore /\ AccumulatedKeys(method) \cap R # {}
    THEN ShortestKey(AccumulatedKeys(method) \cap R)
    ELSE <<>>

ContainsUnderscoreAfter0(method) == \E i \in 2..Len(method) : method[i] = US
FirstUnderscoreAfter0(method) ==
    /\ \E i \in 2..Len(method) : method[i] = US
    /\ method[1] # US

\* C5 as stated: the exact match, else for a method that contains "_" after
\* position 0 the shortest accumulated key in R, else the empty string.
C5_AsStated ==
    keyProbe.done =>
        keyProbe.result =
            NamespaceKey(keyProbe.method, keyProbe.keys,
                         ContainsUnderscoreAfter0(keyProbe.method))

\* C5 amended: the namespace search applies only when the first "_" of the
\* method is after position 0 and the empty string is not a restricted key;
\* otherwise a method that is not in R resolves to the empty string.
C5_MethodKey ==
    keyProbe.done =>
        keyProbe.result =
            NamespaceKey(keyProbe.method, keyProbe.keys,
                         /\ FirstUnderscoreAfter0(keyProbe.method)
                         /\ <<>> \notin keyProbe.keys)

\* A method that is not a key itself resolved to the shorter of two of its
\* accumulated keys that are both restricted.
C5_Witness ==
    /\ keyProbe.done
    /\ keyProbe.method \notin keyProbe.keys
    /\ keyProbe.result = <<"a", US>>
    /\ <<"a", US, "b", US>> \in keyProbe.keys
    /\ keyProbe.method = <<"a", US, "b">>

-----------------------------------------------------------------------------
(* C9: hasPermissions *)

Count(list, c) == Cardinality({i \in 1..Len(list) : caveatEqual(list[i], c)})

\* Equality of two optional caveat lists as multisets.
MultisetEqual(a, b) ==
    IF ~a.present \/ ~b.present THEN ~a.present /\ ~b.present
    ELSE /\ Len(a.list) = Len(b.list)
         /\ \A c \in {a.list[i] : i \in 1..Len(a.list)}
                  \cup {b.list[i] : i \in 1..Len(b.list)} :
               Count(a.list, c) = Count(b.list, c)

\* C9: hasPermissions is true iff for every requested method the domain
\* holds a capability for it with a multiset-equal caveat list.
C9_MultisetEquality ==
    hasProbe.done =>
        (hasProbe.result <=>
            \A m \in Keys(hasProbe.requests) :
                \E i \in 1..Len(hasProbe.perms) :
                    /\ hasProbe.perms[i].parentCapability = m
                    /\ MultisetEqual(Get(hasProbe.requests, m).caveats,
                                     hasProbe.perms[i].caveats))

-----------------------------------------------------------------------------
(* C1, C2: authorization of restricted calls *)

managedMethods == Keys(restrictedMethods)

\* The last operation was a call routed as a restricted method.
IsRestrictedCall ==
    /\ last.op = "call"
    /\ last.method \notin safeMethods
    /\ last.method \notin internalMethodNames

\* What getPermission(origin, req.method) returns for that call (a call
\* leaves the store as it is).
Held == getPermission(domains, last.origin, last.method)

KeyCallable(method) ==
    /\ getMethodKeyFor(method, managedMethods) # <<>>
    /\ Get(restrictedMethods, getMethodKeyFor(method, managedMethods))

Unauthorized == last.error = UNAUTHORIZED /\ last.endCalls = 1 /\ ~last.invoked

\* C1 as stated: a restricted call invokes the restricted method iff
\* getPermission returns a capability, and is unauthorized when it does not.
C1_AsStated ==
    IsRestrictedCall =>
        /\ last.invoked <=> Held.found
        /\ ~Held.found => Unauthorized

\* C1 amended: a restricted call invokes the restricted method only if
\* getPermission returns a capability; it is unauthorized when none is
\* returned; and a capability without caveats for a method whose key has a
\* callable method always reaches the restricted method.
C1_Authorization ==
    IsRestrictedCall =>
        /\ last.invoked => Held.found
        /\ ~Held.found => Unauthorized
        /\ ( /\ Held.found
             /\ ~Held.cap.caveats.present \/ Held.cap.caveats.list = <<>>
             /\ KeyCallable(last.method) )
           => last.invoked /\ last.error = NoError

\* An origin holding a capability for "read" called it and reached the method.
C1_Witness ==
    /\ IsRestrictedCall
    /\ last.method = mRead
    /\ Held.found
    /\ last.invoked

\* C2: a call of a method that resolves to the namespace key "ns_" is
\* authorized by the origin's capability for "ns_": with it the call
\* reaches the method registered under "ns_", without it the call is
\* unauthorized.
C2_NamespaceAuthorization ==
    ( /\ IsRestrictedCall
      /\ last.method \notin managedMethods
      /\ getMethodKeyFor(last.method, managedMethods) = mNs )
    => IF getPermission(domains, last.origin, mNs).found
       THEN last.invoked /\ last.error = NoError
       ELSE Unauthorized

-----------------------------------------------------------------------------
(* C3: routing priority *)

\* C3: a call of a safe method goes to next() with no lookup, no error and
\* no change of state; otherwise a call of an internal method name is
\* answered by the internal handler; otherwise the permission is looked up.
C3_RoutingPriority ==
    [][ last'.op = "call" =>
          IF last'.method \in safeMethods
          THEN /\ last'.nextCalled /\ ~last'.lookup /\ ~last'.invoked
               /\ last'.error = NoError /\ last'.result = "none"
               /\ last'.endCalls = 0
               /\ UNCHANGED <<domains, permissionsRequests, calls, boundMeta,
                              uuidCount>>
          ELSE IF last'.method \in internalMethodNames
          THEN /\ ~last'.nextCalled /\ ~last'.lookup /\ ~last'.invoked
               /\ last'.method = mGetPermissions =>
                    /\ last'.result = "caps"
                    /\ last'.caps = getPermissionsForDomain(domains, last'.origin)
               /\ (last'.method = mRequestPermissions /\ last'.requested = <<>>
                   /\ ~last'.thrown) => last'.error = INVALID_REQ
          ELSE /\ last'.lookup /\ ~last'.nextCalled
               /\ ~getPermission(domains, last'.origin, last'.method).found
                    => last'.error = UNAUTHORIZED
      ]_vars

\* A method that is both safe and restricted was called by an origin with no
\* capability and went to next().
C3_Witness ==
    /\ last.op = "call"
    /\ last.method = mDual
    /\ mDual \in safeMethods /\ mDual \in managedMethods
    /\ last.origin \notin DOMAIN domains
    /\ last.nextCalled

-----------------------------------------------------------------------------
(* C4: no delegation *)

CapsOf(doms, o) ==
    {getPermissionsForDomain(doms, o)[i] :
        i \in 1..Len(getPermissionsForDomain(doms, o))}

Refs(reqs) == {reqs[i].ref : i \in 1..Len(reqs)}

\* C4: a requestPermissions call delivered for origin o, and the settling
\* of its approval, change no other origin's entry, store only capabilities
\* whose invoker is o, and enqueue only a request whose origin is o.
C4_NoDelegation ==
    [][ (last'.op \in {"call", "settle"} /\ last'.method = mRequestPermissions) =>
          /\ \A o2 \in Origins \ {last'.origin} :
                /\ o2 \in DOMAIN domains' <=> o2 \in DOMAIN domains
                /\ CapsOf(domains', o2) = CapsOf(domains, o2)
          /\ \A cap \in CapsOf(domains', last'.origin) \ CapsOf(domains, last'.origin) :
                cap.invoker = last'.origin
          /\ \A i \in 1..Len(permissionsRequests') :
                permissionsRequests'[i].ref \notin Refs(permissionsRequests) =>
                    /\ permissionsRequests'[i].origin = last'.origin
                    /\ permissionsRequests'[i].metadata.origin = last'.origin
      ]_vars

\* A request whose params name another origin was enqueued under the
\* origin it was delivered with.
C4_Witness ==
    /\ last.op = "call" /\ last.method = mRequestPermissions
    /\ last.approvalAsked /\ ~last.thrown
    /\ last.paramOrigin \notin {NoOrigin, last.origin}
    /\ \E i \in 1..Len(permissionsRequests) :
          /\ permissionsRequests[i].ref = last.ref
          /\ permissionsRequests[i].origin = last.origin

-----------------------------------------------------------------------------
(* C6, C7, C8: the list of pending requests *)

\* C6: the request of a call whose approval is no longer awaited (it
\* resolved, rejected, or the approval function threw) is not in
\* permissionsRequests.
C6_RequestFinalization ==
    \A i \in 1..Len(permissionsRequests) :
        calls[permissionsRequests[i].ref].status = "pending"

\* C7: a request whose own approval stays pending stays in
\* permissionsRequests, unless the host removes it by its id.
C7_LivesWhilePending ==
    [][ \A i \in 1..Len(permissionsRequests) :
          ( /\ calls[permissionsRequests[i].ref].status = "pending"
            /\ calls'[permissionsRequests[i].ref].status = "pending"
            /\ ~( /\ last'.op = "removePermissionsRequest"
                  /\ last'.reqId = permissionsRequests[i].metadata.id ) )
          => \E j \in 1..Len(permissionsRequests') :
                permissionsRequests'[j] = permissionsRequests[i]
      ]_vars

\* C8: any two entries of permissionsRequests have different metadata.id.
C8_DistinctIds ==
    \A i, j \in 1..Len(permissionsRequests) :
        i # j => permissionsRequests[i].metadata.id # permissionsRequests[j].metadata.id

-----------------------------------------------------------------------------
(* C10: the fast path *)

\* C10: a requestPermissions call made when hasPermissions(origin,
\* requested) is true ends with res.result = getPermissionsForDomain(origin)
\* and no error, asks no approval, and leaves permissionsRequests and
\* domains as they are.
C10_FastPath ==
    [][ ( /\ last'.op = "call" /\ last'.method = mRequestPermissions
          /\ last'.requested # <<>>
          /\ hasPermissions(getPermissionsForDomain(domains, last'.origin),
                            last'.requested) )
        => /\ last'.result = "caps"
           /\ last'.caps = getPermissionsForDomain(domains, last'.origin)
           /\ last'.error = NoError /\ last'.endCalls = 1
           /\ ~last'.approvalAsked
           /\ UNCHANGED <<permissionsRequests, domains>>
      ]_vars

-----------------------------------------------------------------------------
(* C11: one capability per origin and method *)

MethodsOf(perms) == {perms[i].parentCapability : i \in 1..Len(perms)}

OnePerMethod(perms) ==
    \A i, j \in 1..Len(perms) :
        i # j => perms[i].parentCapability # perms[j].parentCapability

\* C11: in every state of the store reached through grants,
\* addPermissionsFor, removePermissionsFor, clearDomains and setDomain,
\* each domain holds at most one capability per parentCapability.
C11_OnePerMethod ==
    \A o \in DOMAIN domains : OnePerMethod(domains[o].permissions)

-----------------------------------------------------------------------------
(* C12: concurrent grants *)

IsGrant(obs) ==
    /\ obs.op = "settle"
    /\ obs.result = "caps"

FreshId(id) == \E k \in (uuidCount + 1)..MaxUuid : id = Uuid(k)

\* C12: when the approval of a requestPermissions call resolves and is
\* granted, the domain afterwards holds for every approved method exactly
\* one capability, created by this grant with the approved caveats, and
\* holds every capability it held for another method as it was; so grants
\* that resolve in any order leave, per method, the capability of the last
\* grant that approved it.
C12_LastWriterWins ==
    [][ IsGrant(last') =>
          LET o == last'.origin
              approved == last'.outcome.approved
              before == CapsOf(domains, o)
              after == CapsOf(domains', o)
          IN  /\ OnePerMethod(getPermissionsForDomain(domains, o))
                    => OnePerMethod(getPermissionsForDomain(domains', o))
              /\ \A i \in 1..Len(approved) :
                    \E cap \in after :
                        /\ cap.parentCapability = approved[i].key
                        /\ cap.caveats = approved[i].value.caveats
                        /\ FreshId(cap.id)
                        /\ \A other \in after :
                              other.parentCapability = approved[i].key
                                  => other = cap
              /\ \A cap \in before :
                    cap.parentCapability \notin Keys(approved) => cap \in after
              /\ \A cap \in after :
                    cap.parentCapability \notin Keys(approved) => cap \in before
      ]_vars

\* Two calls of one origin were pending together; the second was granted
\* first, the first has now been granted another method, and the domain
\* holds both capabilities.
C12_Witness ==
    /\ IsGrant(last) /\ last.ref = 1
    /\ Len(calls) = 2 /\ calls[2].status = "settled"
    /\ \E old, new \in CapsOf(domains, last.origin) :
          /\ old.parentCapability # new.parentCapability
          /\ new.parentCapability \in Keys(last.outcome.approved)
          /\ \E j, k \in 1..MaxUuid :
                j < k /\ old.id = Uuid(j) /\ new.id = Uuid(k)

-----------------------------------------------------------------------------
(* C13: approvals that end without a grant *)

HasUnknownMethod(approved) ==
    \E i \in 1..Len(approved) :
        getMethodKeyFor(approved[i].key, managedMethods) = <<>>

\* C13: when the approval of a requestPermissions call settles without a
\* grant, domains stays as it was and the call ends once with an error in
\* res.error: USER_REJECTED_ERROR for an empty mapping, the rejection
\* reason for a rejected promise, and METHOD_NOT_FOUND, with nothing
\* granted, for a mapping that names a method without a method key.
C13_NoGrantNoChange ==
    [][ last'.op = "settle" =>
          /\ last'.result # "caps" =>
                /\ UNCHANGED domains
                /\ last'.error # NoError
                /\ last'.endCalls = 1
                /\ ~last'.thrown
          /\ last'.outcome.kind = "reject" => last'.error = REJECTION
          /\ ( /\ last'.outcome.kind = "resolve"
               /\ ~last'.outcome.isNull
               /\ last'.outcome.approved = <<>> )
             => last'.error = USER_REJECTED_ERROR
          /\ ( /\ last'.outcome.kind = "resolve"
               /\ HasUnknownMethod(last'.outcome.approved) )
             => /\ last'.error = METHOD_NOT_FOUND
                /\ last'.result = "none"
                /\ UNCHANGED domains
      ]_vars

\* An approval named a known method and an unknown one: the call ended
\* with METHOD_NOT_FOUND and the origin got no capability for the known one.
C13_Witness ==
    /\ last.op = "settle"
    /\ last.error = METHOD_NOT_FOUND
    /\ HasUnknownMethod(last.outcome.approved)
    /\ mRead \in Keys(last.outcome.approved)
    /\ ~getPermission(domains, last.origin, mRead).found

-----------------------------------------------------------------------------
(* C14, C19: requests that are not well formed *)

\* C14: no call of providerMiddlewareFunction throws; every failure is
\* reported in res.error with a call of end.
C14_ErrorsAreValues ==
    last.op = "call" => ~last.thrown

\* req.params has a first element that is an object (not null, not an
\* array) with at least one key.
FirstIsPermissions(params) ==
    /\ params.defined
    /\ Len(params.list) > 0
    /\ params.list[1].t = "object"
    /\ params.list[1].perms # <<>>

\* C19: a requestPermissions call whose req.params has no first element
\* that is a non-array, non-empty object ends with res.error =
\* invalidReq(req), adds nothing to permissionsRequests, asks for no
\* approval and leaves domains as it was.
C19_Validation ==
    [][ ( /\ last'.op = "call"
          /\ last'.method = mRequestPermissions
          /\ ~FirstIsPermissions(last'.params) )
        => /\ last'.error = INVALID_REQ
           /\ last'.endCalls = 1
           /\ ~last'.thrown
           /\ ~last'.approvalAsked
           /\ UNCHANGED <<permissionsRequests, domains>>
      ]_vars

-----------------------------------------------------------------------------
(* C15, C17: the caveats of the authorizing capability *)

HeldCaveats == IF Held.cap.caveats.present THEN Held.cap.caveats.list ELSE <<>>

AllRegistered(list) == \A i \in 1..Len(list) : list[i].type \in caveatRegistry

\* C15: a restricted call authorized by a capability that carries a caveat
\* of a type that is not in the caveat registry ends with the error
\* `invalid params` in res.error and does not invoke the restricted method.
C15_UnknownCaveatFailsClosed ==
    ( /\ IsRestrictedCall
      /\ Held.found
      /\ KeyCallable(last.method)
      /\ ~AllRegistered(HeldCaveats) )
    => /\ last.error = INVALID_PARAMS
       /\ last.endCalls = 1
       /\ ~last.thrown
       /\ ~last.invoked

\* The caveats of the list whose request phase fails for these params.
Rejecting(list, params) ==
    {i \in 1..Len(list) :
        list[i].type = "filterParams" /\ ~ParamsIncluded(params, list[i].value)}

-----------------------------------------------------------------------------
(* C16, C18: invariants of the store *)

\* C16: the caveat list of every stored capability is in the order of
\* sortCaveats.
C16_CanonicalOrder ==
    \A o \in DOMAIN domains :
        \A i \in 1..Len(domains[o].permissions) :
            domains[o].permissions[i].caveats.present
                => IsSorted(domains[o].permissions[i].caveats.list)

\* C18: no origin of getDomains() has an entry with an empty permissions
\* list.
C18_NoEmptyEntry ==
    \A o \in DOMAIN domains : Len(domains[o].permissions) > 0

-----------------------------------------------------------------------------
(* C20: the host cancels a pending request *)

\* The request of call `ref` is in the list.
Listed(reqs, ref) == \E i \in 1..Len(reqs) : reqs[i].ref = ref

GrantedAsApproved(obs) ==
    ( /\ obs.outcome.kind = "resolve"
      /\ ~obs.outcome.isNull
      /\ obs.outcome.approved # <<>>
      /\ ~HasUnknownMethod(obs.outcome.approved)
      /\ \A i \in 1..Len(obs.outcome.approved) :
            ~obs.outcome.approved[i].value.isNull )
    => obs.result = "caps"

\* C20: removePermissionsRequest(id) takes the request with that id out of
\* permissionsRequests and leaves its approval pending; when the approval
\* of a call whose request is no longer in the list settles, end is called
\* once, approved permissions are granted, and permissionsRequests stays
\* as it was.
C20_HostCancellation ==
    [][ /\ last'.op = "removePermissionsRequest" =>
            /\ \A i \in 1..Len(permissionsRequests') :
                  permissionsRequests'[i].metadata.id # last'.reqId
            /\ calls' = calls
        /\ ( /\ last'.op = "settle"
             /\ ~Listed(permissionsRequests, last'.ref) )
           => /\ last'.endCalls = 1
              /\ GrantedAsApproved(last')
              /\ permissionsRequests' = permissionsRequests
      ]_vars

-----------------------------------------------------------------------------
(* C21: one answer per requestPermissions call *)

\* Exactly one of res.result and res.error has been set.
OneOfResultAndError(obs) ==
    (obs.result # "none") # (obs.error # NoError)

\* C21: a requestPermissions call never invokes next; when it does not
\* wait for an approval (validation failure, fast path) it invokes end
\* once at once, with exactly one of res.result and res.error set;
\* otherwise it invokes end only when its approval promise settles, once,
\* again with exactly one of res.result and res.error set.
C21_AnsweredOnce ==
    [][ /\ (last'.op = "call" /\ last'.method = mRequestPermissions) =>
            /\ ~last'.nextCalled
            /\ IF last'.approvalAsked
               THEN /\ last'.endCalls = 0
                    /\ calls'[last'.ref].status = "pending"
               ELSE /\ last'.endCalls = 1
                    /\ OneOfResultAndError(last')
        /\ last'.op = "settle" =>
            /\ calls[last'.ref].status = "pending"
            /\ calls'[last'.ref].status = "settled"
            /\ last'.endCalls = 1
            /\ ~last'.nextCalled
            /\ OneOfResultAndError(last')
      ]_vars

====
